---- MODULE Spec2Model ----
(***************************************************************************)
(* Model of packages/shared/scope-hoisting/src/generate.js:                *)
(*   - generate(): interpreter invariant, framing of the statement list,   *)
(*     printing, and the assembly of the bundle's source map through a     *)
(*     bounded PromiseQueue of per-asset units;                            *)
(*   - the program that REGISTER_TEMPLATE generates, run by the loader.    *)
(***************************************************************************)
EXTENDS Integers, Sequences, FiniteSets, TLC

\* ------------------------------------------------------------------ bounds
\* Assets of the bundle graph in the small specifications.
NumAssets == 2
\* Assets of the bundle in the specification that fills the work queue.
NumAssetsBig == 52
\* Invocations of the registered wrapper the loader makes.
MaxInvocations == 3

\* new PromiseQueue({maxConcurrent: 50})
MaxConcurrent == 50

\* ------------------------------------------------------------- JS values
Null == [t |-> "null", v |-> ""]
Str(s) == [t |-> "string", v |-> s]
Num(s) == [t |-> "number", v |-> s]

\* typeof x === 'string'
IsString(x) == x.t = "string"
\* the truthiness test of `if (x)` / `x ? a : b` / .filter(Boolean)
Truthy(x) == ~(x.t = "null" \/ (x.t = "string" /\ x.v = ""))

\* a sequence that holds no element twice (the iteration order of a JS Set)
NoDup(s) == \A i, j \in 1..Len(s) : i # j => s[i] # s[j]

RECURSIVE SeqsUpTo(_, _)
\* the sequences over S of length at most n
SeqsUpTo(S, n) ==
    IF n = 0 THEN {<<>>}
    ELSE LET shorter == SeqsUpTo(S, n - 1)
         IN shorter \cup {Append(s, x) : s \in shorter, x \in S}

Range(s) == {s[i] : i \in 1..Len(s)}

\* ------------------------------------------------------------ the graph
Assets == 1..NumAssets

\* bundleGraph.getAssetPublicId(asset): unique within the graph
getAssetPublicId(a) == 100 + a

\* mainEntry.meta.interpreter values: absent, a string, the empty string, 42
InterpreterValues == {Null, Str("#!/usr/bin/env node"), Str(""), Num("42")}

OutputFormats == {"global", "esmodule", "commonjs"}

\* ast.program.body of the input tree
InputBody == <<[kind |-> "stmt", name |-> "s1", body |-> <<>>, ids |-> <<>>, require |-> ""],
               [kind |-> "stmt", name |-> "s2", body |-> <<>>, ids |-> <<>>, require |-> ""],
               [kind |-> "stmt", name |-> "s3", body |-> <<>>, ids |-> <<>>, require |-> ""]>>

parcelRequireName == "parcelRequire"

\* bundle.getMainEntry() of a bundle without a main entry
NoAsset == 0

\* ------------------------------------------------- the source-map library
\* A SourceMap object (or the absence of one): its sources, their contents
\* (aligned with the sources), its positional mappings, and how toVLQ()
\* behaves on it: "ok", "nocontent" (no sourcesContent list), "throws".
NoMap == [present |-> FALSE, sources |-> <<>>, sourcesContent |-> <<>>,
          mappings |-> {}, vlq |-> "ok"]

\* new SourceMap(options.projectRoot)
NewSourceMap == [present |-> TRUE, sources |-> <<>>, sourcesContent |-> <<>>,
                 mappings |-> {}, vlq |-> "ok"]

IndexOf(seq, x) == IF \E i \in 1..Len(seq) : seq[i] = x
                   THEN CHOOSE i \in 1..Len(seq) : seq[i] = x
                   ELSE 0

\* map.setSourceContent(sourceName, sourceContent)
setSourceContent(m, source, content) ==
    LET i == IndexOf(m.sources, source)
    IN IF i = 0
       THEN [m EXCEPT !.sources = Append(@, source),
                      !.sourcesContent = Append(@, content)]
       ELSE [m EXCEPT !.sourcesContent[i] = content]

RECURSIVE AddSources(_, _, _)
\* the sources the mappings name from index i on, added (with empty content)
\* when new
AddSources(m, raw, i) ==
    IF i > Len(raw) THEN m
    ELSE AddSources(IF IndexOf(m.sources, raw[i].source) = 0
                    THEN setSourceContent(m, raw[i].source, Str(""))
                    ELSE m,
                    raw, i + 1)

\* map.addIndexedMappings(rawMappings)
addIndexedMappings(m, raw) ==
    [AddSources(m, raw, 1) EXCEPT !.mappings = @ \cup Range(raw)]

\* map.toVLQ() of a map that decodes
toVLQ(m) == [sources |-> m.sources, sourcesContent |-> m.sourcesContent,
             hasSourcesContent |-> m.vlq # "nocontent"]

\* the content a map holds for a source (Null when it holds none)
getSourceContent(m, source) ==
    LET i == IndexOf(m.sources, source)
    IN IF ~m.present \/ i = 0 THEN Null ELSE m.sourcesContent[i]

\* ------------------------------------------------------- the templates
\* REGISTER_TEMPLATE({STATEMENTS, REFERENCED_IDS, PARCEL_REQUIRE})
REGISTER_TEMPLATE(STATEMENTS, REFERENCED_IDS, PARCEL_REQUIRE) ==
    [kind |-> "register", name |-> "$parcel$bundleWrapper", body |-> STATEMENTS,
     ids |-> REFERENCED_IDS, require |-> PARCEL_REQUIRE]

\* WRAPPER_TEMPLATE({STATEMENTS})
WRAPPER_TEMPLATE(STATEMENTS) ==
    [kind |-> "iife", name |-> "", body |-> STATEMENTS, ids |-> <<>>, require |-> ""]

\* -------------------------------------------------- generate(): framing
\* mutant: the invariant is not checked
InterpreterInvariantOff(_interpreter) == TRUE

\* invariant(_interpreter == null || typeof _interpreter === 'string')
InterpreterInvariant(_interpreter) ==
    _interpreter = Null \/ IsString(_interpreter)

\* mainEntry && !bundle.target.env.isBrowser()
ReadsInterpreter(mainEntryAsset, browser) == mainEntryAsset # NoAsset /\ ~browser

\* [mainEntry, ...referencedAssets].filter(Boolean).map(getAssetPublicId)
ReferencedIds(mainEntryAsset, referenced) ==
    LET all == <<mainEntryAsset>> \o referenced
        kept == SelectSeq(all, LAMBDA a : a # NoAsset)
    IN [i \in 1..Len(kept) |-> getAssetPublicId(kept[i])]

\* mutant: every global-format bundle is registered, entry or not
FrameStatementsAlwaysRegister(body, format, isAsync, mainEntryAsset, referenced) ==
    IF format = "global"
    THEN <<REGISTER_TEMPLATE(body, ReferencedIds(mainEntryAsset, referenced),
                             parcelRequireName)>>
    ELSE body

\* mutant: the format is not consulted, every bundle is wrapped
FrameStatementsWrapsAll(body, format, isAsync, mainEntryAsset, referenced) ==
    IF isAsync
    THEN <<REGISTER_TEMPLATE(body, ReferencedIds(mainEntryAsset, referenced),
                             parcelRequireName)>>
    ELSE <<WRAPPER_TEMPLATE(body)>>

\* the statement list of the produced program (lines 75-92)
FrameStatements(body, format, isAsync, mainEntryAsset, referenced) ==
    IF format = "global"
    THEN IF isAsync
         THEN <<REGISTER_TEMPLATE(body, ReferencedIds(mainEntryAsset, referenced),
                                  parcelRequireName)>>
         ELSE <<WRAPPER_TEMPLATE(body)>>
    ELSE body

\* bundle.env.outputFormat === 'esmodule' ? 'module' : 'script'
SourceType(format) == IF format = "esmodule" THEN "module" ELSE "script"

\* interpreter ? t.interpreterDirective(interpreter) : null
InterpreterDirective(interp) == IF Truthy(interp) THEN interp ELSE Null

\* t.file(t.program(statements, [], sourceType, interpreterDirective))
File(stmts, format, interp) ==
    [body |-> stmts, sourceType |-> SourceType(format),
     interpreter |-> InterpreterDirective(interp)]

NoFile == [body |-> <<>>, sourceType |-> "", interpreter |-> Null]

\* ------------------------------------------------- generate(): printing
\* the raw mappings babelGenerate may hand back: none, or a list. The printer
\* is an external collaborator: either answer is allowed whatever its options.
NoMappings == [present |-> FALSE, list |-> <<>>]
PrinterMappings ==
    {NoMappings,
     [present |-> TRUE,
      list |-> <<[generated |-> 1, original |-> 1, source |-> "a.js"],
                 [generated |-> 2, original |-> 1, source |-> "b.js"]>>]}

\* the text babelGenerate prints for a tree
Printed(tree) == [text |-> tree]
NoCode == [text |-> NoFile]

\* mutant: the source-map flag is not consulted
AssemblesMapIgnoresFlag(sourceMapEnabled, raw) == raw.present

\* bundle.env.sourceMap && rawMappings != null
AssemblesMap(sourceMapEnabled, raw) == sourceMapEnabled /\ raw.present

\* ---------------------------------------------- what asset.getMap() yields
AssetMap(srcs, contents, how) ==
    [present |-> TRUE, sources |-> srcs, sourcesContent |-> contents,
     mappings |-> {}, vlq |-> how]

GetMapOutcomes ==
    {[kind |-> "reject", map |-> NoMap],
     [kind |-> "resolve", map |-> NoMap],
     [kind |-> "resolve", map |-> AssetMap(<<"a.js">>, <<Str("A")>>, "throws")],
     [kind |-> "resolve", map |-> AssetMap(<<"a.js">>, <<Str("A")>>, "nocontent")],
     [kind |-> "resolve", map |-> AssetMap(<<"a.js", "b.js">>, <<Str("A"), Str("")>>, "ok")],
     [kind |-> "resolve", map |-> AssetMap(<<"a.js">>, <<Str("A2")>>, "ok")],
     [kind |-> "resolve", map |-> AssetMap(<<"c.js", "b.js">>, <<Null, Str("B")>>, "ok")]}

\* ----------------------------------------------- the per-asset unit
RECURSIVE AttachFrom(_, _, _)
\* the loop of lines 125-134 from index i on, attaching to map m
AttachFrom(m, vlqEncodedMap, i) ==
    IF i > Len(vlqEncodedMap.sourcesContent) THEN m
    ELSE LET sourceContent == vlqEncodedMap.sourcesContent[i]
         IN AttachFrom(IF Truthy(sourceContent)
                       THEN setSourceContent(m, vlqEncodedMap.sources[i], sourceContent)
                       ELSE m,
                       vlqEncodedMap, i + 1)

\* mutant: the loop without the test of line 129
AttachCallsUnguarded(vlqEncodedMap) ==
    {[source |-> vlqEncodedMap.sources[i], content |-> vlqEncodedMap.sourcesContent[i]] :
        i \in 1..Len(vlqEncodedMap.sourcesContent)}

\* the setSourceContent calls the loop makes
AttachCalls(vlqEncodedMap) ==
    {[source |-> vlqEncodedMap.sources[i], content |-> vlqEncodedMap.sourcesContent[i]] :
        i \in {j \in 1..Len(vlqEncodedMap.sourcesContent) :
                  Truthy(vlqEncodedMap.sourcesContent[j])}}

\* whether the unit reaches the loop for what getMap() yielded
Attaches(o) ==
    /\ o.kind = "resolve"
    /\ o.map.present
    /\ o.map.vlq # "throws"
    /\ toVLQ(o.map).hasSourcesContent

\* mutant: a missing map is an error
UnitThrowsOnMissingMap(o) ==
    o.kind = "reject" \/ ~o.map.present \/ o.map.vlq # "ok"

\* whether the unit's promise rejects: getMap() rejected or toVLQ() threw
UnitThrows(o) == o.kind = "reject" \/ (o.map.present /\ o.map.vlq = "throws")

\* mutant: line 120 binds another name, so line 131 acts on the map of line 109
UnitAttachesToOuterMap(o, outerMap) ==
    [threw |-> UnitThrows(o),
     assetMap |-> o.map,
     outerMap |-> IF Attaches(o) THEN AttachFrom(outerMap, toVLQ(o.map), 1) ELSE outerMap,
     calls |-> IF Attaches(o)
               THEN {[target |-> "outputMap", source |-> c.source, content |-> c.content] :
                        c \in AttachCalls(toVLQ(o.map))}
               ELSE {}]

\* The unit of lines 118-137, given what `await asset.getMap()` yields and the
\* map of line 109. The `let map` of line 120 shadows the map of line 109, so
\* the setSourceContent of line 131 acts on the asset's own map.
Unit(o, outerMap) ==
    [threw |-> UnitThrows(o),
     assetMap |-> IF Attaches(o) THEN AttachFrom(o.map, toVLQ(o.map), 1) ELSE o.map,
     outerMap |-> outerMap,
     calls |-> IF Attaches(o)
               THEN {[target |-> "assetMap", source |-> c.source, content |-> c.content] :
                        c \in AttachCalls(toVLQ(o.map))}
               ELSE {}]

\* ------------------------------------------------------ the work queue
\* mutant: the ceiling is one too high
NewPromiseQueueOffByOne ==
    [maxConcurrent |-> MaxConcurrent + 1, queue |-> <<>>, numRunning |-> 0,
     error |-> FALSE, runPromise |-> "none"]

\* mutant: a queue without a slot
NewPromiseQueueNoSlots ==
    [maxConcurrent |-> 0, queue |-> <<>>, numRunning |-> 0,
     error |-> FALSE, runPromise |-> "none"]

\* new PromiseQueue({maxConcurrent: 50})
NewPromiseQueue ==
    [maxConcurrent |-> MaxConcurrent, queue |-> <<>>, numRunning |-> 0,
     error |-> FALSE, runPromise |-> "none"]

Min(a, b) == IF a < b THEN a ELSE b

\* promiseQueue.add(fn): the unit is queued; no unit runs before run()
QueueAdd(q, unit) == [q EXCEPT !.queue = Append(@, unit)]

RECURSIVE QueueAddAll(_, _, _)
QueueAddAll(q, units, i) ==
    IF i > Len(units) THEN q ELSE QueueAddAll(QueueAdd(q, units[i]), units, i + 1)

\* how many queued units a free slot lets start
Startable(q) ==
    IF q.numRunning < q.maxConcurrent
    THEN Min(Len(q.queue), q.maxConcurrent - q.numRunning)
    ELSE 0

\* promiseQueue.run(): resolved at once when nothing is queued, else units are
\* started while there is a queued unit and a free slot
QueueRun(q) ==
    IF Len(q.queue) = 0 THEN [q EXCEPT !.runPromise = "resolved"]
    ELSE LET k == Startable(q)
         IN [q EXCEPT !.queue = SubSeq(@, k + 1, Len(@)),
                      !.numRunning = @ + k,
                      !.runPromise = "pending"]

\* a running unit has settled: its slot is released, the first error is kept,
\* the next queued unit (if any) starts, and the run promise settles once
\* nothing is queued or running
QueueSettle(q, threw) ==
    LET released == [q EXCEPT !.numRunning = @ - 1, !.error = @ \/ threw]
    IN IF Len(released.queue) > 0
       THEN [released EXCEPT !.queue = Tail(@), !.numRunning = @ + 1]
       ELSE IF released.numRunning = 0
            THEN [released EXCEPT !.runPromise =
                      IF released.error THEN "rejected" ELSE "resolved"]
            ELSE released

\* mutant: a rejected run is not rethrown
AfterRunIgnoresRejection(runPromise) == "return"

\* await promiseQueue.run(): where generate() continues once the promise settled
AfterRun(runPromise) == IF runPromise = "rejected" THEN "failed" ELSE "return"

\* mutant: run() is called and not awaited
RunNotAwaited(runPromise) == TRUE

\* await promiseQueue.run(): generate() continues only once the promise settled
RunSettled(runPromise) == runPromise \in {"resolved", "rejected"}

\* ------------------------------------------------------------- the state
VARIABLES
    \* the arguments of generate()
    isEntryBundle,      \* isEntry(bundle, bundleGraph)
    outputFormat,       \* bundle.env.outputFormat
    isBrowser,          \* bundle.target.env.isBrowser()
    sourceMap,          \* bundle.env.sourceMap
    bundleAssets,       \* the assets bundle.traverseAssets visits, in order
    mainEntry,          \* bundle.getMainEntry(), or NoAsset
    interpreterMeta,    \* mainEntry.meta.interpreter
    referencedAssets,   \* the Set referencedAssets, in iteration order
    \* the locals of generate()
    pc, interpreter, ast, code, rawMappings, map, promiseQueue, result,
    \* what the call did so far
    printerCalls, traverseCalls, getMapCalls, unitsAdded, setCalls,
    seenContent, lastOutcome, unitFailed, unitsSettled, lastAssetMap,
    indexedInserts,
    \* the loaded registration wrapper
    loaded, registered, executed, running, bodyStarts, bodyEnds, bodyThrown,
    invocations, startedUnder, skippedUnder

inputVars == <<isEntryBundle, outputFormat, isBrowser, sourceMap, bundleAssets,
               mainEntry, interpreterMeta, referencedAssets>>
queueVars == <<promiseQueue, getMapCalls, setCalls, seenContent, lastOutcome, unitFailed,
               unitsSettled, lastAssetMap>>
loaderVars == <<loaded, registered, executed, running, bodyStarts, bodyEnds, bodyThrown,
                invocations, startedUnder, skippedUnder>>
vars == <<inputVars, indexedInserts, pc, interpreter, ast, code, rawMappings, map, result,
          printerCalls, traverseCalls, unitsAdded, queueVars, loaderVars>>

NoResult == [returned |-> FALSE, contents |-> NoCode, map |-> NoMap]
NoOutcome == [kind |-> "none", map |-> NoMap]

\* the state of a call before its first statement
Fresh ==
    /\ pc = "start"
    /\ interpreter = Null
    /\ ast = NoFile
    /\ code = NoCode
    /\ rawMappings = NoMappings
    /\ map = NoMap
    /\ promiseQueue = [NewPromiseQueue EXCEPT !.maxConcurrent = 0]
    /\ result = NoResult
    /\ printerCalls = 0 /\ traverseCalls = 0 /\ getMapCalls = 0 /\ unitsAdded = 0
    /\ setCalls = {} /\ seenContent = {} /\ lastOutcome = NoOutcome
    /\ unitFailed = FALSE /\ unitsSettled = 0 /\ lastAssetMap = NoMap
    /\ indexedInserts = 0
    /\ loaded = FALSE /\ registered = <<>> /\ executed = FALSE /\ running = 0
    /\ bodyStarts = 0 /\ bodyEnds = 0 /\ bodyThrown = 0 /\ invocations = 0
    /\ startedUnder = {} /\ skippedUnder = {}

Init ==
    /\ isEntryBundle \in BOOLEAN
    /\ outputFormat \in OutputFormats
    /\ isBrowser \in BOOLEAN
    /\ sourceMap \in BOOLEAN
    /\ bundleAssets \in {[i \in 1..n |-> i] : n \in 0..NumAssets}
    /\ mainEntry \in {NoAsset} \cup Range(bundleAssets)
    /\ interpreterMeta \in IF mainEntry = NoAsset THEN {Null} ELSE InterpreterValues
    /\ referencedAssets \in {s \in SeqsUpTo(Assets, NumAssets) : NoDup(s)}
    /\ Fresh

\* ------------------------------------------------ generate(), step by step
\* lines 63-69
CheckInterpreter ==
    /\ pc = "start"
    /\ IF ReadsInterpreter(mainEntry, isBrowser)
       THEN IF InterpreterInvariant(interpreterMeta)
            THEN interpreter' = interpreterMeta /\ pc' = "frame"
            ELSE interpreter' = interpreter /\ pc' = "failed"
       ELSE interpreter' = interpreter /\ pc' = "frame"
    /\ UNCHANGED <<inputVars, indexedInserts, ast, code, rawMappings, map, result, printerCalls,
                   traverseCalls, unitsAdded, queueVars, loaderVars>>

\* lines 71-101
Frame ==
    /\ pc = "frame"
    /\ ast' = File(FrameStatements(InputBody, outputFormat, ~isEntryBundle,
                                   mainEntry, referencedAssets),
                   outputFormat, interpreter)
    /\ pc' = "print"
    /\ UNCHANGED <<inputVars, indexedInserts, interpreter, code, rawMappings, map, result, printerCalls,
                   traverseCalls, unitsAdded, queueVars, loaderVars>>

\* lines 103-107
BabelGenerate ==
    /\ pc = "print"
    /\ \E raw \in PrinterMappings : rawMappings' = raw
    /\ code' = Printed(ast)
    /\ printerCalls' = printerCalls + 1
    /\ pc' = "assemble"
    /\ UNCHANGED <<inputVars, indexedInserts, interpreter, ast, map, result,
                   traverseCalls, unitsAdded, queueVars, loaderVars>>

\* mutant: the raw mappings are not inserted
CreateMapWithoutMappings ==
    /\ pc = "assemble"
    /\ IF AssemblesMap(sourceMap, rawMappings)
       THEN /\ map' = NewSourceMap
            /\ indexedInserts' = indexedInserts
            /\ promiseQueue' = NewPromiseQueue
            /\ pc' = "traverse"
       ELSE /\ UNCHANGED <<map, promiseQueue, indexedInserts>>
            /\ pc' = "return"
    /\ UNCHANGED <<inputVars, interpreter, ast, code, rawMappings, result, printerCalls,
                   traverseCalls, unitsAdded, getMapCalls, setCalls, seenContent,
                   lastOutcome, unitFailed, unitsSettled, lastAssetMap,
                   loaderVars>>

\* lines 109-116
CreateMap ==
    /\ pc = "assemble"
    /\ IF AssemblesMap(sourceMap, rawMappings)
       THEN /\ map' = addIndexedMappings(NewSourceMap, rawMappings.list)
            /\ indexedInserts' = indexedInserts + 1
            /\ promiseQueue' = NewPromiseQueue
            /\ pc' = "traverse"
       ELSE /\ UNCHANGED <<map, promiseQueue, indexedInserts>>
            /\ pc' = "return"
    /\ UNCHANGED <<inputVars, interpreter, ast, code, rawMappings, result, printerCalls,
                   traverseCalls, unitsAdded, getMapCalls, setCalls, seenContent,
                   lastOutcome, unitFailed, unitsSettled, lastAssetMap,
                   loaderVars>>

\* lines 117-138: every asset of the bundle gets a unit, none of them runs yet
TraverseAssets ==
    /\ pc = "traverse"
    /\ promiseQueue' = QueueAddAll(promiseQueue, bundleAssets, 1)
    /\ traverseCalls' = traverseCalls + 1
    /\ unitsAdded' = unitsAdded + Len(bundleAssets)
    /\ pc' = "run"
    /\ UNCHANGED <<inputVars, indexedInserts, interpreter, ast, code, rawMappings, map, result,
                   printerCalls, getMapCalls, setCalls, seenContent, lastOutcome,
                   unitFailed, unitsSettled, lastAssetMap,
                   loaderVars>>

\* line 139, the call: the first units start and call asset.getMap()
RunQueue ==
    /\ pc = "run"
    /\ promiseQueue' = QueueRun(promiseQueue)
    /\ getMapCalls' = getMapCalls + (promiseQueue'.numRunning - promiseQueue.numRunning)
    /\ pc' = "await"
    /\ UNCHANGED <<inputVars, indexedInserts, interpreter, ast, code, rawMappings, map, result,
                   printerCalls, traverseCalls, unitsAdded, setCalls, seenContent,
                   lastOutcome, unitFailed, unitsSettled, lastAssetMap,
                   loaderVars>>

\* lines 120-136: the getMap() of a running unit settles, the unit runs to its
\* end, and the queue goes on
UnitSettles ==
    /\ promiseQueue.numRunning > 0
    /\ \E o \in GetMapOutcomes :
         LET u == Unit(o, map)
             q == QueueSettle(promiseQueue, u.threw)
         IN /\ map' = u.outerMap
            /\ setCalls' = setCalls \cup u.calls
            /\ seenContent' = seenContent \cup
                   (IF Attaches(o) THEN AttachCalls(toVLQ(o.map)) ELSE {})
            /\ lastOutcome' = o
            /\ unitFailed' = (unitFailed \/ u.threw)
            /\ unitsSettled' = unitsSettled + 1
            /\ lastAssetMap' = u.assetMap
            /\ promiseQueue' = q
            /\ getMapCalls' = getMapCalls +
                   (IF Len(q.queue) < Len(promiseQueue.queue) THEN 1 ELSE 0)
    /\ UNCHANGED <<inputVars, indexedInserts, pc, interpreter, ast, code, rawMappings, result,
                   printerCalls, traverseCalls, unitsAdded, loaderVars>>

\* line 139, the await
AwaitRun ==
    /\ pc = "await"
    /\ RunSettled(promiseQueue.runPromise)
    /\ pc' = AfterRun(promiseQueue.runPromise)
    /\ UNCHANGED <<inputVars, indexedInserts, interpreter, ast, code, rawMappings, map, result,
                   printerCalls, traverseCalls, unitsAdded, queueVars, loaderVars>>

\* lines 142-145
Return ==
    /\ pc = "return"
    /\ result' = [returned |-> TRUE, contents |-> code, map |-> map]
    /\ pc' = "returned"
    /\ UNCHANGED <<inputVars, indexedInserts, interpreter, ast, code, rawMappings, map,
                   printerCalls, traverseCalls, unitsAdded, queueVars, loaderVars>>

Next ==
    \/ CheckInterpreter
    \/ Frame
    \/ BabelGenerate
    \/ CreateMap
    \/ TraverseAssets
    \/ RunQueue
    \/ UnitSettles
    \/ AwaitRun
    \/ Return

Spec == Init /\ [][Next]_vars

\* ------------------------------------------- a bundle with a full queue
\* a bundle of more assets than the queue runs at once
InitBig ==
    /\ isEntryBundle = TRUE
    /\ outputFormat = "esmodule"
    /\ isBrowser = TRUE
    /\ sourceMap = TRUE
    /\ bundleAssets = [i \in 1..NumAssetsBig |-> i]
    /\ mainEntry = 1
    /\ interpreterMeta = Null
    /\ referencedAssets = <<>>
    /\ Fresh

SpecBig == InitBig /\ [][Next]_vars

\* ------------------------------------------------ the scheduled call
\* bundles of fewer and of more assets than the queue runs at once, with
\* source maps enabled
InitFair ==
    /\ isEntryBundle = TRUE
    /\ outputFormat = "esmodule"
    /\ isBrowser = TRUE
    /\ sourceMap = TRUE
    /\ bundleAssets \in {[i \in 1..n |-> i] : n \in {0, 1, NumAssets, NumAssetsBig}}
    /\ mainEntry = NoAsset
    /\ interpreterMeta = Null
    /\ referencedAssets = <<>>
    /\ Fresh

\* The event loop runs every continuation that is ready (the statements of
\* generate() and the continuation of the awaited run), and every started
\* getMap() settles.
Fairness ==
    /\ WF_vars(CheckInterpreter)
    /\ WF_vars(Frame)
    /\ WF_vars(BabelGenerate)
    /\ WF_vars(CreateMap)
    /\ WF_vars(TraverseAssets)
    /\ WF_vars(RunQueue)
    /\ WF_vars(UnitSettles)
    /\ WF_vars(AwaitRun)
    /\ WF_vars(Return)

SpecFair == InitFair /\ [][Next]_vars /\ Fairness

\* ------------------------------- the program REGISTER_TEMPLATE generates
\* the top-level statements of the text generate() returned
LoadedProgram == result.contents.text.body

\* whether the text is one self-invoking registration wrapper
IsRegistration(program) == Len(program) = 1 /\ program[1].kind = "register"

\* mutant: the guard of line 34 is missing
SkipsBodyNever(flag) == FALSE

\* line 34: if ($parcel$bundleWrapper._executed) return;
SkipsBody(flag) == flag

\* what a call of generate() leaves alone once it has returned
callVars == <<inputVars, indexedInserts, pc, interpreter, ast, code, rawMappings, map,
              result, printerCalls, traverseCalls, unitsAdded, queueVars>>

\* the registerBundle calls of the loop of lines 38-41: each passes an element
\* of REFERENCED_IDS and the one function declared at line 33
RegisterCalls(statement) ==
    [i \in 1..Len(statement.ids) |-> [id |-> statement.ids[i], wrapper |-> statement.name]]

\* mutant: the outer function runs the body itself
LoadBundleRunsBody ==
    /\ pc = "returned"
    /\ ~loaded
    /\ IsRegistration(LoadedProgram)
    /\ loaded' = TRUE
    /\ registered' = RegisterCalls(LoadedProgram[1])
    /\ bodyStarts' = bodyStarts + 1
    /\ running' = running + 1
    /\ UNCHANGED <<callVars, executed, bodyEnds, bodyThrown, invocations,
                   startedUnder, skippedUnder>>

\* The script is loaded: the outer function of lines 32-42 runs, and its loop
\* (lines 38-41) calls PARCEL_REQUIRE.registerBundle(id, $parcel$bundleWrapper)
\* for each element of REFERENCED_IDS. The body is not run.
LoadBundle ==
    /\ pc = "returned"
    /\ ~loaded
    /\ IsRegistration(LoadedProgram)
    /\ loaded' = TRUE
    /\ registered' = RegisterCalls(LoadedProgram[1])
    /\ UNCHANGED <<callVars, executed, running, bodyStarts, bodyEnds, bodyThrown,
                   invocations, startedUnder, skippedUnder>>

\* mutant: the flag is set before the body
InvokeWrapperFlagFirst ==
    /\ loaded
    /\ invocations < MaxInvocations
    /\ \E i \in 1..Len(registered) :
         IF SkipsBody(executed)
         THEN /\ skippedUnder' = skippedUnder \cup {registered[i].id}
              /\ UNCHANGED <<bodyStarts, running, startedUnder, executed>>
         ELSE /\ executed' = TRUE
              /\ bodyStarts' = bodyStarts + 1
              /\ running' = running + 1
              /\ startedUnder' = startedUnder \cup {registered[i].id}
              /\ UNCHANGED skippedUnder
    /\ invocations' = invocations + 1
    /\ UNCHANGED <<callVars, loaded, registered, bodyEnds, bodyThrown>>

\* The loader calls the wrapper registered under some id (lines 33-35): the
\* flag is read, and unless it is set the body starts. The call may come while
\* an earlier call's body is still running (the body requires a bundle that
\* requires this one).
InvokeWrapper ==
    /\ loaded
    /\ invocations < MaxInvocations
    /\ \E i \in 1..Len(registered) :
         IF SkipsBody(executed)
         THEN /\ skippedUnder' = skippedUnder \cup {registered[i].id}
              /\ UNCHANGED <<bodyStarts, running, startedUnder>>
         ELSE /\ bodyStarts' = bodyStarts + 1
              /\ running' = running + 1
              /\ startedUnder' = startedUnder \cup {registered[i].id}
              /\ UNCHANGED skippedUnder
    /\ invocations' = invocations + 1
    /\ UNCHANGED <<callVars, loaded, registered, executed, bodyEnds, bodyThrown>>

\* line 35 ends and line 36 sets the flag
BodyReturns ==
    /\ running > 0
    /\ running' = running - 1
    /\ bodyEnds' = bodyEnds + 1
    /\ executed' = TRUE
    /\ UNCHANGED <<callVars, loaded, registered, bodyStarts, bodyThrown, invocations,
                   startedUnder, skippedUnder>>

\* a statement of the body throws: line 36 is not reached
BodyThrows ==
    /\ running > 0
    /\ running' = running - 1
    /\ bodyThrown' = bodyThrown + 1
    /\ UNCHANGED <<callVars, loaded, registered, executed, bodyStarts, bodyEnds,
                   invocations, startedUnder, skippedUnder>>

\* generate() of a non-entry global-format bundle without source map
InitLoad ==
    /\ isEntryBundle = FALSE
    /\ outputFormat = "global"
    /\ isBrowser \in BOOLEAN
    /\ sourceMap = FALSE
    /\ bundleAssets \in {[i \in 1..n |-> i] : n \in 0..NumAssets}
    /\ mainEntry \in {NoAsset} \cup Range(bundleAssets)
    /\ interpreterMeta \in IF mainEntry = NoAsset THEN {Null} ELSE {Null, Str("#!/usr/bin/env node")}
    /\ referencedAssets \in {s \in SeqsUpTo(Assets, NumAssets) : NoDup(s)}
    /\ Fresh

NextLoad ==
    \/ CheckInterpreter
    \/ Frame
    \/ BabelGenerate
    \/ CreateMap
    \/ Return
    \/ LoadBundle
    \/ InvokeWrapper
    \/ BodyReturns
    \/ BodyThrows

SpecLoad == InitLoad /\ [][NextLoad]_vars

\* ------------------------------------------------------------ the claims
\* the tree has been framed (lines 94-101 ran)
Framed == ast # NoFile

\* the bundle is the one of a non-entry global-format call
AsyncGlobal == ~isEntryBundle /\ outputFormat = "global"

\* C1 (as claimed): when source maps are enabled and generate() returns, every
\* non-empty content a traversed asset's map holds at index i is held by the
\* returned map under the source path at index i.
C1_ContentInOutputMap ==
    (result.returned /\ sourceMap) =>
        \A c \in seenContent : getSourceContent(result.map, c.source) = c.content

\* C2 (as claimed): over any sequence of invocations of the registered wrapper
\* (sequential, re-entrant, or after a body that threw) the body starts at most
\* once.
C2_BodyStartsAtMostOnce == bodyStarts <= 1

\* C3 (as claimed): for every entry bundle, whatever its output format, the
\* top-level statements of the produced program are exactly the input tree's.
C3_EntryStatementsUntouched ==
    (isEntryBundle /\ Framed) => ast.body = InputBody

\* C3 (amended): for every entry bundle no registration call is introduced;
\* when the format is not 'global' the top-level statements are exactly the
\* input's, in order, and when it is 'global' the program is one plain
\* self-invoking wrapper whose body is exactly the input's statements, in order.
C3_EntryNoRegistration ==
    (isEntryBundle /\ Framed) =>
        /\ \A i \in 1..Len(ast.body) : ast.body[i].kind # "register"
        /\ outputFormat # "global" => ast.body = InputBody
        /\ outputFormat = "global" => ast.body = <<WRAPPER_TEMPLATE(InputBody)>>
        /\ result.returned => result.contents.text.body = ast.body

C3_Witness == isEntryBundle /\ outputFormat = "global" /\ result.returned

\* C4 (as claimed): for every non-entry global-format bundle the program is one
\* registration wrapper whose REFERENCED_IDS holds exactly the public ids of
\* {main entry} \cup referencedAssets, each exactly once.
C4_ReferencedIdsOnce ==
    (AsyncGlobal /\ Framed) =>
        /\ IsRegistration(ast.body)
        /\ NoDup(ast.body[1].ids)
        /\ Range(ast.body[1].ids) =
             {getAssetPublicId(a) :
                a \in ({mainEntry} \ {NoAsset}) \cup Range(referencedAssets)}

\* C5: if bundle.env.sourceMap is false the returned map is null, and
\* traverseAssets and getMap are never called and no unit is scheduled.
C5_NoAssemblyWithoutSourceMap ==
    ~sourceMap =>
        /\ map = NoMap
        /\ result.returned => result.map = NoMap
        /\ traverseCalls = 0 /\ getMapCalls = 0 /\ unitsAdded = 0
        /\ promiseQueue.queue = <<>> /\ promiseQueue.numRunning = 0

C5_Witness == ~sourceMap /\ Len(bundleAssets) > 0 /\ result.returned

\* C6: if a unit fails (getMap rejects or toVLQ throws) the call fails as a
\* whole: no result is returned, and no unit is started a second time.
C6_UnitFailureFailsCall ==
    /\ unitFailed => (~result.returned /\ pc \in {"await", "failed"})
    /\ getMapCalls <= unitsAdded

C6_Witness == unitFailed /\ pc = "failed" /\ unitsSettled = unitsAdded /\ unitsAdded >= 2

\* the units that have started and not yet completed
InFlight == getMapCalls - unitsSettled

\* C7: at most 50 units are in flight at any time, also for a bundle of more
\* than 50 assets.
C7_AtMostFiftyInFlight == InFlight <= 50 /\ promiseQueue.numRunning = InFlight

C7_Witness == InFlight = 50 /\ Len(promiseQueue.queue) > 0 /\ unitsAdded > 50

\* C8: with source maps enabled the result is returned only after every unit
\* scheduled during traverseAssets has completed: none is queued or in flight.
C8_ReturnAfterAllUnits ==
    (sourceMap /\ pc \in {"return", "returned"}) =>
        /\ promiseQueue.queue = <<>>
        /\ InFlight = 0
        /\ unitsSettled = unitsAdded
        /\ ~ENABLED UnitSettles

C8_Witness == sourceMap /\ result.returned /\ unitsAdded >= 2

\* the main entry's interpreter is neither absent nor a string, and is read
BadInterpreter ==
    /\ mainEntry # NoAsset
    /\ ~isBrowser
    /\ interpreterMeta # Null
    /\ ~IsString(interpreterMeta)

\* C9: with a main entry, a non-browser target and an interpreter that is
\* neither null nor a string, generate() fails before the printer is invoked:
\* no text, no map, no traversal.
C9_BadInterpreterFailsEarly ==
    BadInterpreter =>
        /\ pc \in {"start", "failed"}
        /\ printerCalls = 0 /\ code = NoCode /\ ~Framed
        /\ map = NoMap /\ traverseCalls = 0 /\ getMapCalls = 0
        /\ ~result.returned

C9_Witness == BadInterpreter /\ pc = "failed"

\* C10 (as claimed): an interpreter directive is attached only if the bundle is
\* an entry bundle, its target is non-browser and its main entry declares an
\* interpreter.
C10_DirectiveOnlyForEntry ==
    (Framed /\ ast.interpreter # Null) =>
        /\ isEntryBundle
        /\ ~isBrowser
        /\ mainEntry # NoAsset
        /\ interpreterMeta # Null

\* C11: for every bundle whose output format is not 'global', entry or not,
\* the top-level statements of the produced program are the input tree's, in
\* the same order, with no wrapper and no registration call.
C11_OtherFormatsPassThrough ==
    (outputFormat # "global" /\ Framed) =>
        /\ ast.body = InputBody
        /\ \A i \in 1..Len(ast.body) : ast.body[i].kind = "stmt"
        /\ result.returned => result.contents.text.body = InputBody

C11_Witness == ~isEntryBundle /\ outputFormat = "commonjs" /\ result.returned

\* C12: for every traversed asset and every index whose content is absent or
\* the empty string, the unit attaches nothing for that source:
\* setSourceContent is never called with empty or absent content.
C12_NoEmptyContentAttached ==
    /\ \A c \in setCalls : c.content # Null /\ c.content # Str("")
    /\ \A i \in 1..Len(lastOutcome.map.sourcesContent) :
         lastOutcome.map.sourcesContent[i] \in {Null, Str("")} =>
            /\ lastAssetMap.sourcesContent[i] = lastOutcome.map.sourcesContent[i]
            /\ \A c \in setCalls : c.source # lastOutcome.map.sources[i]
                                     \/ c.content # lastOutcome.map.sourcesContent[i]

C12_Witness ==
    /\ lastOutcome.map.sourcesContent = <<Str("A"), Str("")>>
    /\ [target |-> "assetMap", source |-> "a.js", content |-> Str("A")] \in setCalls
    /\ result.returned

\* what getMap() yielded is no map, or a map without a sourcesContent list
Skipped(o) ==
    /\ o.kind = "resolve"
    /\ \/ ~o.map.present
       \/ o.map.vlq = "nocontent"

\* C13: a traversed asset whose getMap() yields no map, or whose map has no
\* sourcesContent list, is skipped: its unit completes successfully, changes no
\* map and does not make generate() fail.
C13_MissingMapSkipped ==
    /\ [][(unitsSettled' # unitsSettled /\ Skipped(lastOutcome')) =>
            /\ map' = map
            /\ lastAssetMap' = lastOutcome'.map
            /\ setCalls' = setCalls
            /\ unitFailed' = unitFailed
            /\ promiseQueue'.error = promiseQueue.error
            /\ promiseQueue'.runPromise # "rejected" \/ unitFailed]_vars
    /\ [](pc = "failed" /\ printerCalls > 0 => unitFailed)

C13_Witness ==
    /\ lastOutcome = [kind |-> "resolve", map |-> NoMap]
    /\ unitsSettled = unitsAdded /\ unitsAdded >= 2 /\ ~unitFailed
    /\ result.returned

\* C14 (as claimed): the Output Map is the only object the units write to:
\* every setSourceContent call of a unit targets the Output Map, none an
\* asset's own map.
C14_UnitsWriteOnlyOutputMap ==
    \A c \in setCalls : c.target = "outputMap"

\* C16: the map a successful call returns is the same for every completion
\* order of the units, also when two assets' maps carry content for the same
\* source path: it is determined by the printer's raw mappings alone.
C16_OutputMapOrderIndependent ==
    result.returned =>
        result.map = IF AssemblesMap(sourceMap, rawMappings)
                     THEN addIndexedMappings(NewSourceMap, rawMappings.list)
                     ELSE NoMap

C16_Witness ==
    /\ result.returned
    /\ [source |-> "a.js", content |-> Str("A")] \in seenContent
    /\ [source |-> "a.js", content |-> Str("A2")] \in seenContent
    /\ lastOutcome.map.sourcesContent = <<Str("A2")>>

\* C17: when an Output Map is created the raw mappings are inserted exactly
\* once, before any unit is scheduled, and no unit changes a positional
\* mapping: the map's mappings are exactly the printer's raw mappings.
C17_MappingsAreRawMappings ==
    /\ map.present =>
         /\ indexedInserts = 1
         /\ map.mappings = Range(rawMappings.list)
         /\ result.returned => result.map.mappings = Range(rawMappings.list)
    /\ ~map.present => (unitsAdded = 0 /\ indexedInserts = 0 /\ getMapCalls = 0)

C17_Witness == map.present /\ setCalls # {} /\ unitsSettled >= 2 /\ result.returned

\* C15: loading a non-entry global-format bundle runs none of the body's
\* statements: it calls registerBundle once per element of REFERENCED_IDS, and
\* the body runs only when the loader later invokes the registered wrapper.
C15_LoadOnlyRegisters ==
    /\ loaded =>
         /\ Len(registered) = Len(ast.body[1].ids)
         /\ \A i \in 1..Len(registered) : registered[i].id = ast.body[1].ids[i]
    /\ bodyStarts <= invocations
    /\ invocations = 0 => (bodyStarts = 0 /\ running = 0 /\ ~executed)

C15_Witness == loaded /\ Len(registered) = 2 /\ invocations = 0

\* C18: every registerBundle call of one bundle passes the same wrapper, so
\* the flag is shared by all registered ids: once the body has run to
\* completion, invoking the wrapper under any id does not run the body again.
C18_FlagSharedAcrossIds ==
    /\ [](\A i, j \in 1..Len(registered) : registered[i].wrapper = registered[j].wrapper)
    /\ [](bodyEnds >= 1 => executed)
    /\ [][(executed /\ invocations' # invocations) =>
            /\ bodyStarts' = bodyStarts
            /\ running' = running
            /\ startedUnder' = startedUnder]_vars

C18_Witness ==
    /\ bodyEnds >= 1
    /\ \E a \in startedUnder : \E b \in skippedUnder : a # b

Done == pc \in {"returned", "failed"}

\* C20: with source maps enabled, for a bundle of fewer or of more than 50
\* assets, if every started getMap() settles then every scheduled unit is
\* eventually started and generate() eventually returns or fails; no unit
\* stays queued forever.
C20_Terminates ==
    /\ <>Done
    /\ (pc = "run") ~> (promiseQueue.queue = <<>> /\ getMapCalls = unitsAdded)
    /\ [](Done => (promiseQueue.queue = <<>> /\ unitsSettled = unitsAdded))

C20_Witness == result.returned /\ unitsAdded > 50 /\ unitsSettled = unitsAdded

====
